---- MODULE Spec2Model ----
(***************************************************************************)
(* A model of streamlit_app.py: the admin page that looks a user up by     *)
(* email and lists the user's PDF documents.                               *)
(*                                                                         *)
(* Streamlit executes the script from top to bottom once per interaction   *)
(* (a "page run"), in a fresh module namespace; only st.session_state and  *)
(* the process-wide firebase_admin._apps survive from one run to the next. *)
(* Each action below is one interaction followed by the whole page run it  *)
(* triggers (and the run started by st.experimental_rerun(), if any).      *)
(*                                                                         *)
(* Strings are sequences of one-character strings, so that ==, `in` and    *)
(* split('@') are computed as Python computes them.                        *)
(***************************************************************************)
EXTENDS Integers, Sequences, FiniteSets

VARIABLES
    users,          \* the database's `users` collection, in iteration order
    apps,           \* firebase_admin._apps is non-empty (process-wide)
    in_scope,       \* the name display_document is bound when line 347/353 runs
    found_user,     \* st.session_state.found_user
    searched_email, \* st.session_state.searched_email
    view_pdf,       \* st.session_state.view_pdf
    last_refresh,   \* st.session_state.last_refresh: which time.time() it holds
    event,          \* the "View PDF" click, if any, that started the last run
    page,           \* what the last page run rendered
    size_in,        \* a file_data value handed to the size computation
    size_out        \* the size text computed for size_in

vars == << users, apps, in_scope, found_user, searched_email, view_pdf,
           last_refresh, event, page, size_in, size_out >>

(***************************************************************************)
(* Bounds of the model.                                                    *)
(***************************************************************************)
MaxUsers == 2
MaxDocs == 2
MaxDataChars == 2736

(***************************************************************************)
(* Python string operations.                                               *)
(***************************************************************************)
\* s in t
IsSubstring(s, t) ==
    \E i \in 0..(Len(t) - Len(s)) : SubSeq(t, i + 1, i + Len(s)) = s

\* s.split('@')[0]: the text before the first '@', all of s when it has none
LocalPart(s) ==
    IF \E i \in 1..Len(s) : s[i] = "@"
    THEN LET i == CHOOSE k \in 1..Len(s) :
                      s[k] = "@" /\ \A j \in 1..(k - 1) : s[j] # "@"
         IN  SubSeq(s, 1, i - 1)
    ELSE s

\* seq[:n]
Take(seq, n) == SubSeq(seq, 1, IF Len(seq) < n THEN Len(seq) ELSE n)

(***************************************************************************)
(* Data.  A user is [email, documents]; its id is its position in `users`. *)
(* An absent email and an empty one are both <<>>: the code reads the      *)
(* field with .get('email') against a non-empty input and with            *)
(* .get('email', '') under `if email`, which treat the two alike.          *)
(* documents is the sequence of the user's documents in dict order; a      *)
(* document's key is its position.  An absent documents field and an empty *)
(* one are both <<>> (line 323 treats them alike).                         *)
(***************************************************************************)
NoEmail == << >>
NoCategory == "(absent)"
NoFile == [present |-> FALSE, n |-> 0, pad |-> 0]
NoUser == [id |-> 0, data |-> [email |-> NoEmail, documents |-> << >>]]
DocIds == 1..MaxDocs

\* a base64 text of n alphabet characters followed by pad '=' characters
File(n, pad) == [present |-> TRUE, n |-> n, pad |-> pad]

Doc(fn, ds, cat, fd) ==
    [filename |-> fn, description |-> ds, category |-> cat, file_data |-> fd]

(***************************************************************************)
(* base64.b64decode(text) in its default, non-validating mode: the decoder *)
(* consumes the alphabet characters four at a time; a final group of two   *)
(* characters needs two '=' after it and yields one byte, a final group of *)
(* three needs one '=' and yields two bytes, and a final group of one      *)
(* character never decodes.  A failure raises binascii.Error.              *)
(***************************************************************************)
B64Decodes(fd) ==
    \/ fd.n % 4 = 0
    \/ fd.n % 4 = 2 /\ fd.pad >= 2
    \/ fd.n % 4 = 3 /\ fd.pad >= 1

\* len(base64.b64decode(text)) when it decodes
B64DecodedLen(fd) ==
    3 * (fd.n \div 4) + (IF fd.n % 4 = 2 THEN 1 ELSE IF fd.n % 4 = 3 THEN 2 ELSE 0)

(***************************************************************************)
(* f"{size_bytes/1024:.1f} KB".  size_bytes/1024 is exact in binary        *)
(* floating point, and the format rounds the exact value to the nearest    *)
(* tenth, a tie going to the even tenth.  The text is kept as its number   *)
(* of tenths: 20 stands for "2.0 KB".                                      *)
(***************************************************************************)
KBDivisor == 1024

\* a size format that drops the digits after the first decimal
FormatTenthsTruncated(size_bytes) == (10 * size_bytes) \div KBDivisor

FormatTenths(size_bytes) ==
    LET q == (10 * size_bytes) \div KBDivisor
        r == (10 * size_bytes) % KBDivisor
    IN  IF 2 * r > KBDivisor THEN q + 1
        ELSE IF 2 * r < KBDivisor THEN q
        ELSE IF q % 2 = 0 THEN q ELSE q + 1

Unknown == [known |-> FALSE, tenths |-> 0]
KB(t) == [known |-> TRUE, tenths |-> t]

\* lines 371-378: the size shown in the document's metadata line
FileSize(fd) ==
    IF fd.present /\ B64Decodes(fd)
    THEN KB(FormatTenths(B64DecodedLen(fd)))
    ELSE Unknown

(***************************************************************************)
(* display_document(doc_id, doc), lines 361-426.  view_button is the       *)
(* return value of this document's "View PDF" button in this run, vp is    *)
(* st.session_state.view_pdf when the call starts.  The result is the card *)
(* rendered, view_pdf after the call and the exception that escapes.       *)
(***************************************************************************)
\* a click that only ever opens the preview
ToggleOpens(vp, doc_id) == [vp EXCEPT ![doc_id] = "true"]

Toggle(vp, doc_id) ==
    [vp EXCEPT ![doc_id] = IF @ = "absent" THEN "true"
                           ELSE IF @ = "true" THEN "false" ELSE "true"]

NoCard == [doc_id |-> 0, tab |-> "", size |-> Unknown, controls |-> FALSE,
           viewer |-> FALSE, error |-> FALSE]

display_document(doc_id, doc, tab, view_button, vp) ==
    IF ~doc.description
    THEN \* doc["description"] at line 366
         [card |-> NoCard, view_pdf |-> vp, raised |-> "KeyError"]
    ELSE IF ~doc.filename
    THEN \* doc["filename"] at line 381
         [card |-> NoCard, view_pdf |-> vp, raised |-> "KeyError"]
    ELSE LET decodes == doc.file_data.present /\ B64Decodes(doc.file_data)
             vp2 == IF decodes /\ view_button THEN Toggle(vp, doc_id) ELSE vp
         IN  [card |-> [doc_id |-> doc_id,
                        tab |-> tab,
                        size |-> FileSize(doc.file_data),
                        controls |-> decodes,
                        viewer |-> decodes /\ vp2[doc_id] = "true",
                        error |-> doc.file_data.present /\ ~decodes],
              view_pdf |-> vp2,
              raised |-> "none"]

(***************************************************************************)
(* The grouping of lines 326-338.                                          *)
(***************************************************************************)
Indices(n) == [i \in 1..n |-> i]

\* lines 331 and 351: the documents the loops do not skip
Renderable(doc) == doc.filename /\ doc.description

\* line 334
CategoryOf(doc) ==
    IF doc.category = NoCategory THEN "Uncategorized" ELSE doc.category

InSeq(x, seq) == \E i \in 1..Len(seq) : seq[i] = x

RECURSIVE CategoryKeys(_, _)
\* list(doc_categories.keys()): the categories in order of first encounter
CategoryKeys(documents, i) ==
    IF i = 0 THEN << >>
    ELSE LET before == CategoryKeys(documents, i - 1)
             doc == documents[i]
         IN  IF Renderable(doc) /\ ~InSeq(CategoryOf(doc), before)
             THEN Append(before, CategoryOf(doc))
             ELSE before

\* doc_categories[category]: the ids of its documents in encounter order
Bucket(documents, category) ==
    SelectSeq(Indices(Len(documents)),
              LAMBDA i : Renderable(documents[i]) /\ CategoryOf(documents[i]) = category)

RECURSIVE Flatten(_, _, _)
\* the calls of lines 344-347, in order: tab by tab, each bucket in order
Flatten(documents, keys, k) ==
    IF k > Len(keys) THEN << >>
    ELSE Bucket(documents, keys[k]) \o Flatten(documents, keys, k + 1)

\* the calls of lines 350-353, in order
FlatCalls(documents) ==
    SelectSeq(Indices(Len(documents)), LAMBDA i : Renderable(documents[i]))

RECURSIVE RenderCalls(_, _, _, _, _, _, _)
\* the display_document calls of one run, made in order until one raises
RenderCalls(calls, k, documents, tabbed, clicked, vp, cards) ==
    IF k > Len(calls)
    THEN [cards |-> cards, view_pdf |-> vp, exception |-> "none"]
    ELSE LET d == calls[k]
             r == display_document(d, documents[d],
                                   IF tabbed THEN CategoryOf(documents[d]) ELSE "",
                                   clicked = d, vp)
         IN  IF r.raised # "none"
             THEN [cards |-> cards, view_pdf |-> r.view_pdf, exception |-> r.raised]
             ELSE RenderCalls(calls, k + 1, documents, tabbed, clicked,
                              r.view_pdf, Append(cards, r.card))

(***************************************************************************)
(* Lines 323-357: the documents section for the displayed user.  `bound`   *)
(* says whether the name display_document is bound when the calls at lines *)
(* 347 and 353 run; the first call with the name unbound raises NameError, *)
(* which ends the page run.                                                *)
(***************************************************************************)
DisplayDocuments(documents, bound, clicked, vp) ==
    IF documents = << >>
    THEN [nodocs |-> TRUE, tabs |-> << >>, cards |-> << >>, view_pdf |-> vp,
          exception |-> "none"]
    ELSE LET keys == CategoryKeys(documents, Len(documents))
             tabbed == Len(keys) > 1
             calls == IF tabbed THEN Flatten(documents, keys, 1)
                      ELSE FlatCalls(documents)
             r == RenderCalls(calls, 1, documents, tabbed, clicked, vp, << >>)
         IN  IF calls # << >> /\ ~bound
             THEN [nodocs |-> FALSE, tabs |-> IF tabbed THEN keys ELSE << >>,
                   cards |-> << >>, view_pdf |-> vp, exception |-> "NameError"]
             ELSE [nodocs |-> FALSE, tabs |-> IF tabbed THEN keys ELSE << >>,
                   cards |-> r.cards, view_pdf |-> r.view_pdf,
                   exception |-> r.exception]

(***************************************************************************)
(* initialize_firebase(), lines 11-33, as called at line 182.  The result  *)
(* is truthy when an app already exists or one of the two credential       *)
(* sources yields a certificate; otherwise the outer except returns None.  *)
(***************************************************************************)
\* an initialisation that reports an app whatever the credentials did
initialize_firebase_unchecked(has_app, env) == TRUE

initialize_firebase(has_app, env) == has_app \/ env.secrets \/ env.keyfile

(***************************************************************************)
(* Search Logic, lines 235-281, for a non-empty input.                     *)
(***************************************************************************)
\* a scan without the break of line 256: the last match is kept
LastMatch(us, search_email) ==
    IF \E i \in 1..Len(us) : us[i].email = search_email
    THEN CHOOSE i \in 1..Len(us) :
             /\ us[i].email = search_email
             /\ \A j \in (i + 1)..Len(us) : us[j].email # search_email
    ELSE 0

\* lines 248-256: the position of the first record whose email equals the
\* input, 0 when there is none
FirstMatch(us, search_email) ==
    IF \E i \in 1..Len(us) : us[i].email = search_email
    THEN CHOOSE i \in 1..Len(us) :
             /\ us[i].email = search_email
             /\ \A j \in 1..(i - 1) : us[j].email # search_email
    ELSE 0

\* a test that looks for the input's local part in the candidate's local part
IsSimilarLocalPart(email, search_email) ==
    email # NoEmail /\ IsSubstring(LocalPart(search_email), LocalPart(email))

\* line 267: the test that admits an email to similar_emails
IsSimilar(email, search_email) ==
    email # NoEmail /\ IsSubstring(LocalPart(search_email), email)

\* lines 264-268
SimilarEmails(us, search_email) ==
    LET emails == [i \in 1..Len(us) |-> us[i].email]
    IN  SelectSeq(emails, LAMBDA e : IsSimilar(e, search_email))

\* line 273: the number of suggestions offered at most
SuggestionCap == 3

\* line 273
Offered(similar) == Take(similar, SuggestionCap)

\* line 274: st.button(..., key=f"suggest_{email}") raises DuplicateWidgetID
\* on the first email that repeats an earlier one; 0 when no key repeats
FirstRepeat(offered) ==
    IF \E k \in 1..Len(offered) : \E j \in 1..(k - 1) : offered[j] = offered[k]
    THEN CHOOSE k \in 1..Len(offered) :
             /\ \E j \in 1..(k - 1) : offered[j] = offered[k]
             /\ \A m \in 1..(k - 1) :
                    \A j \in 1..(m - 1) : offered[j] # offered[m]
    ELSE 0

NoSearch(fu, se) ==
    [found_user |-> fu, searched_email |-> se, lookup |-> FALSE,
     success |-> FALSE, not_found |-> FALSE, retrieve_error |-> FALSE,
     suggestions |-> << >>]

SearchLogic(us, search_email, fu, read_ok) ==
    IF ~read_ok
    THEN \* users_ref.get() raises: lines 279-281
         [found_user |-> NoUser, searched_email |-> search_email, lookup |-> TRUE,
          success |-> FALSE, not_found |-> FALSE, retrieve_error |-> TRUE,
          suggestions |-> << >>]
    ELSE LET m == FirstMatch(us, search_email)
             offered == Offered(SimilarEmails(us, search_email))
             rep == FirstRepeat(offered)
         IN  IF m # 0
             THEN [found_user |-> [id |-> m, data |-> us[m]],
                   searched_email |-> search_email, lookup |-> TRUE,
                   success |-> TRUE, not_found |-> FALSE,
                   retrieve_error |-> FALSE, suggestions |-> << >>]
             ELSE IF rep # 0
             THEN \* the repeated key raises inside the try: lines 279-281
                  [found_user |-> NoUser, searched_email |-> search_email,
                   lookup |-> TRUE, success |-> FALSE, not_found |-> TRUE,
                   retrieve_error |-> TRUE,
                   suggestions |-> SubSeq(offered, 1, rep - 1)]
             ELSE [found_user |-> fu, searched_email |-> search_email,
                   lookup |-> TRUE, success |-> FALSE, not_found |-> TRUE,
                   retrieve_error |-> FALSE, suggestions |-> offered]

(***************************************************************************)
(* One run of the script from line 181 on.  button is the button whose     *)
(* click started the run ("none" for a rerun), search_email the content of *)
(* the text input, clicked the document whose "View PDF" was clicked (0    *)
(* for none), env what the outside world answers in this run.              *)
(***************************************************************************)
BlankPage ==
    [halted |-> "no", lookup |-> FALSE, success |-> FALSE, not_found |-> FALSE,
     retrieve_error |-> FALSE, suggestions |-> << >>, shown |-> NoUser,
     nodocs |-> FALSE, tabs |-> << >>, cards |-> << >>, exception |-> "none"]

\* lines 284-357 for the session state the search left
DisplayUserData(found, bound, clicked, vp) ==
    IF found # NoUser
    THEN DisplayDocuments(found.data.documents, bound, clicked, vp)
    ELSE [nodocs |-> FALSE, tabs |-> << >>, cards |-> << >>, view_pdf |-> vp,
          exception |-> "none"]

\* the session state and the page after a run that was not halted, from the
\* result s of the search section and the result d of the display section
RunResult(s, d) ==
    [apps |-> TRUE,
     found_user |-> s.found_user,
     searched_email |-> s.searched_email,
     view_pdf |-> d.view_pdf,
     page |-> [halted |-> "no", lookup |-> s.lookup,
               success |-> s.success, not_found |-> s.not_found,
               retrieve_error |-> s.retrieve_error,
               suggestions |-> s.suggestions,
               shown |-> s.found_user,
               nodocs |-> d.nodocs, tabs |-> d.tabs, cards |-> d.cards,
               exception |-> d.exception]]

SearchSection(us, fu, se, button, search_email, env) ==
    IF button = "search" /\ search_email # << >>
    THEN SearchLogic(us, search_email, fu, env.read)
    ELSE NoSearch(fu, se)

AfterSearch(s, bound, clicked, vp) ==
    RunResult(s, DisplayUserData(s.found_user, bound, clicked, vp))

PageRun(us, has_app, bound, fu, se, vp, button, search_email, clicked, env) ==
    IF ~initialize_firebase(has_app, env)
    THEN \* lines 184-205
         [apps |-> FALSE, found_user |-> fu, searched_email |-> se,
          view_pdf |-> vp, page |-> [BlankPage EXCEPT !.halted = "init"]]
    ELSE IF ~env.db
    THEN \* lines 208-216
         [apps |-> TRUE, found_user |-> fu, searched_email |-> se,
          view_pdf |-> vp, page |-> [BlankPage EXCEPT !.halted = "db"]]
    ELSE AfterSearch(SearchSection(us, fu, se, button, search_email, env),
                     bound, clicked, vp)

(***************************************************************************)
(* The inputs of the model.                                                *)
(***************************************************************************)
Ea == << "a", "@", "x" >>
Eb == << "x", "@", "a" >>
Ec == << "x", "a", "@", "x" >>
Ed == << "A", "@", "x" >>

\* the contents of the text input: empty, emails of the pool, a text with no
\* '@', an email of no record, and a text with nothing before its '@'
SearchTexts ==
    { << >>, Ea, Eb, Ec, << "a" >>, << "x", "@", "x" >>, << "@", "x" >> }

Env(s, k, d, r) == [secrets |-> s, keyfile |-> k, db |-> d, read |-> r]

\* what the outside world answers in a run: all well, or one thing failing
\* (the secrets, then the key file as well, the test read, the users read)
Envs == { Env(TRUE, TRUE, TRUE, TRUE), Env(FALSE, TRUE, TRUE, TRUE),
          Env(FALSE, FALSE, TRUE, TRUE), Env(TRUE, TRUE, FALSE, TRUE),
          Env(TRUE, TRUE, TRUE, FALSE) }

Pdf2048 == File(2731, 1)
Corrupt == File(5, 0)

DocPool ==
    { Doc(TRUE, TRUE, "A", Pdf2048),
      Doc(TRUE, TRUE, NoCategory, Corrupt),
      Doc(FALSE, TRUE, "B", File(4, 0)),
      Doc(TRUE, TRUE, "B", NoFile) }

SeqsUpTo(S, n) == UNION { [1..k -> S] : k \in 0..n }

Ua == [email |-> Ea, documents |-> << Doc(TRUE, TRUE, "A", Pdf2048),
                                      Doc(TRUE, TRUE, NoCategory, Corrupt) >>]
Ub == [email |-> Eb, documents |-> << Doc(FALSE, TRUE, "B", NoFile),
                                      Doc(TRUE, TRUE, "B", NoFile) >>]
Uc == [email |-> Ec, documents |-> << Doc(TRUE, FALSE, "A", NoFile) >>]
Ud == [email |-> Ed, documents |-> << >>]
Un == [email |-> NoEmail, documents |-> << >>]

UserPool == { Ua, Ub, Uc, Ud, Un }

\* collections with more similar emails than are offered
WideCollections ==
    { << Ua, Ub, Uc, Ud >>, << Ub, Uc, Ua, Ua >>, << Ud, Ua, Ub, Uc, Un >>,
      << Ua, Ub, Ua >>, << Un, Ud, Ua, Ua >> }

NoEvent == [button |-> "none", doc |-> 0]

InitSession ==
    /\ apps = FALSE
    /\ found_user = NoUser
    /\ searched_email = << >>
    /\ view_pdf = [d \in DocIds |-> "absent"]
    /\ last_refresh = "first run"
    /\ event = NoEvent
    /\ page = BlankPage

NoProbe ==
    /\ size_in = NoFile
    /\ size_out = Unknown

\* the page script as written: display_document is defined at line 361,
\* after the calls at lines 347 and 353, and every run starts from a fresh
\* namespace, so the name is unbound when the calls run
Init ==
    /\ users \in SeqsUpTo(UserPool, MaxUsers) \cup WideCollections
    /\ in_scope = FALSE
    /\ InitSession
    /\ NoProbe

(***************************************************************************)
(* The interactions.                                                       *)
(***************************************************************************)
Run(button, text, clicked, env, fu, se, vp) ==
    \E r \in { PageRun(users, apps, in_scope, fu, se, vp, button, text, clicked, env) } :
        /\ apps' = r.apps
        /\ found_user' = r.found_user
        /\ searched_email' = r.searched_email
        /\ view_pdf' = r.view_pdf
        /\ page' = r.page
        /\ event' = [button |-> IF button = "view" THEN "view" ELSE "none",
                      doc |-> clicked]
        /\ UNCHANGED << users, in_scope, size_in, size_out >>

\* the Search button, line 230, with search_email in the text input
SearchWith(text, env) ==
    /\ Run("search", text, 0, env, found_user, searched_email, view_pdf)
    /\ UNCHANGED last_refresh

Search == \E text \in SearchTexts, env \in Envs : SearchWith(text, env)

\* a run started by anything that is no button of this page run: Enter in
\* the text input, a download, or a suggestion button (rendered only while
\* search_btn is true, so its click is never read back at line 274)
RerunWith(env) ==
    /\ Run("none", << >>, 0, env, found_user, searched_email, view_pdf)
    /\ UNCHANGED last_refresh

Rerun == \E env \in Envs : RerunWith(env)

\* "Refresh Data", lines 160-163, and the run st.experimental_rerun() starts.
\* last_refresh holds a time.time() that only the sidebar caption of line 166
\* reads; what is kept of it is whether it is the time of the session's
\* first run or that of a later click.
RefreshWith(env) ==
    /\ last_refresh' = "refresh click"
    /\ Run("refresh", << >>, 0, env, NoUser, searched_email, view_pdf)

RefreshData == \E env \in Envs : RefreshWith(env)

\* "Clear Results", lines 172-176, and the run st.experimental_rerun() starts
ClearWith(env) ==
    /\ UNCHANGED last_refresh
    /\ Run("clear", << >>, 0, env, NoUser, << >>, [d \in DocIds |-> "absent"])

ClearResults == \E env \in Envs : ClearWith(env)

\* a "View PDF" button, line 406; it can be clicked when the last run drew it
ViewWith(d, env) ==
    /\ \E k \in 1..Len(page.cards) :
           page.cards[k].doc_id = d /\ page.cards[k].controls
    /\ Run("view", << >>, d, env, found_user, searched_email, view_pdf)
    /\ UNCHANGED last_refresh

ViewPDF == \E d \in DocIds, env \in Envs : ViewWith(d, env)

\* With display_document unbound no card is ever drawn, so no "View PDF"
\* button exists to be clicked.
Next == Search \/ Rerun \/ RefreshData \/ ClearResults

Spec == Init /\ [][Next]_vars

(***************************************************************************)
(* display_document exercised with its name in scope: the same page runs,  *)
(* started with the function bound at the call sites, over users whose     *)
(* documents range over every sequence of pool documents.  The second user *)
(* owns a document under the same key as the first user's first document.  *)
(***************************************************************************)
CardUsers(documents) ==
    << [email |-> Ea, documents |-> documents],
       [email |-> Eb, documents |-> << Doc(TRUE, TRUE, "A", File(4, 0)) >>] >>

InitCard ==
    /\ users \in { CardUsers(documents) : documents \in SeqsUpTo(DocPool, MaxDocs) }
    /\ in_scope = TRUE
    /\ InitSession
    /\ NoProbe

NextCard == Search \/ Rerun \/ RefreshData \/ ClearResults \/ ViewPDF

SpecCard == InitCard /\ [][NextCard]_vars

(***************************************************************************)
(* The size computation of lines 371-378 applied to base64 texts of every  *)
(* length up to MaxDataChars with zero to two '=' after them.              *)
(***************************************************************************)
Paddings == 0..2

InitSize ==
    /\ users = << >>
    /\ in_scope = FALSE
    /\ InitSession
    /\ size_in \in { File(n, pad) : n \in 0..MaxDataChars, pad \in Paddings }
                     \cup { NoFile }
    /\ size_out = Unknown

MeasureSize ==
    /\ event = NoEvent
    /\ size_out' = FileSize(size_in)
    /\ event' = [button |-> "size", doc |-> 0]
    /\ UNCHANGED << users, apps, in_scope, found_user, searched_email, view_pdf,
                    last_refresh, page, size_in >>

NextSize == MeasureSize

SpecSize == InitSize /\ [][NextSize]_vars

(***************************************************************************)
(* Claims.                                                                 *)
(***************************************************************************)
\* the users read of the last run succeeded and the loop of lines 248-256 ran
Searched == page.halted = "no" /\ page.lookup /\ (page.success \/ page.not_found)

Matches(text) == { i \in 1..Len(users) : users[i].email = text }

\* C1: after a search for a non-empty email that some record carries, the
\* found user is the first record, in iteration order, whose email equals
\* the input character for character, with that record's id and data, and
\* it is the user displayed; records further on with the same email are
\* never stored or shown.
C1_FirstMatchIsFound ==
    Searched /\ Matches(searched_email) # {} =>
        \E i \in Matches(searched_email) :
            /\ \A j \in Matches(searched_email) : i <= j
            /\ found_user = [id |-> i, data |-> users[i]]
            /\ page.shown = found_user
            /\ page.success /\ ~page.not_found

\* C1 witness: a search found a user whose email a later record shares
C1_Witness ==
    /\ Searched /\ page.success
    /\ Cardinality(Matches(searched_email)) >= 2
    /\ \E j \in Matches(searched_email) : found_user.id < j

\* the test the code applies to a candidate: the input's local part occurs
\* somewhere in the candidate's whole email
ContainsInput(email) ==
    email # << >> /\ IsSubstring(LocalPart(searched_email), email)

\* the test the claim names: it occurs in the candidate's local part
LocalContainsInput(email) ==
    email # << >> /\ IsSubstring(LocalPart(searched_email), LocalPart(email))

\* C2 as stated: when the searched email equals no record's email the
\* search reports "not found" and every suggestion shown is an email whose
\* local part contains the input's local part, at most 3 of them.
C2_SuggestionsMatchLocalPart ==
    Searched /\ Matches(searched_email) = {} =>
        /\ page.not_found /\ ~page.success
        /\ Len(page.suggestions) <= 3
        /\ \A k \in 1..Len(page.suggestions) :
               LocalContainsInput(page.suggestions[k])

\* C2 amended: when the searched email equals no record's email the search
\* reports "not found", and the k-th suggestion shown is the email of the
\* k-th record, in scan order, whose whole email contains the input's local
\* part; at most 3 are shown.
C2_SuggestionsContainLocalPart ==
    Searched /\ Matches(searched_email) = {} =>
        /\ page.not_found /\ ~page.success
        /\ Len(page.suggestions) <= 3
        /\ \A k \in 1..Len(page.suggestions) :
               \E i \in 1..Len(users) :
                   /\ users[i].email = page.suggestions[k]
                   /\ ContainsInput(users[i].email)
                   /\ Cardinality({ j \in 1..i : ContainsInput(users[j].email) }) = k

\* C2 witness: more than 3 records qualify, 3 suggestions are shown, and
\* one of them contains the input's local part only after its '@'
C2_Witness ==
    /\ Searched /\ page.not_found
    /\ Cardinality({ j \in 1..Len(users) : ContainsInput(users[j].email) }) > 3
    /\ Len(page.suggestions) = 3
    /\ \E k \in 1..3 : ~LocalContainsInput(page.suggestions[k])

ShownDocs == page.shown.data.documents

CardsOf(d) == { k \in 1..Len(page.cards) : page.cards[k].doc_id = d }

\* C3: when the displayed user has documents, the run draws exactly one
\* card for each document that has filename and description, under its
\* category ("Uncategorized" when it has none), in encounter order within
\* the category, in the tabbed and the flat presentation alike.
C3_OneCardPerDocument ==
    page.shown # NoUser /\ ShownDocs # << >> =>
        /\ page.exception = "none"
        /\ \A d \in 1..Len(ShownDocs) :
               Cardinality(CardsOf(d)) = IF Renderable(ShownDocs[d]) THEN 1 ELSE 0
        /\ \A k \in 1..Len(page.cards) :
               page.tabs # << >> =>
                   page.cards[k].tab = CategoryOf(ShownDocs[page.cards[k].doc_id])
        /\ \A k1, k2 \in 1..Len(page.cards) :
               /\ k1 < k2
               /\ CategoryOf(ShownDocs[page.cards[k1].doc_id])
                      = CategoryOf(ShownDocs[page.cards[k2].doc_id])
               => page.cards[k1].doc_id < page.cards[k2].doc_id

Undecodable(doc) ==
    Renderable(doc) /\ doc.file_data.present /\ ~B64Decodes(doc.file_data)

\* C4: when a document of the displayed user has file_data that does not
\* decode, the run reports one error, on that document's card, and still
\* draws the card of every other renderable document; the run is not
\* aborted.
C4_DecodeFailureIsIsolated ==
    page.shown # NoUser /\ (\E d \in 1..Len(ShownDocs) : Undecodable(ShownDocs[d])) =>
        /\ page.exception = "none"
        /\ \A d \in 1..Len(ShownDocs) :
               Renderable(ShownDocs[d]) =>
                   \E k \in 1..Len(page.cards) :
                       /\ CardsOf(d) = { k }
                       /\ page.cards[k].error = Undecodable(ShownDocs[d])

\* C5: when a document of the displayed user lacks filename or description,
\* the run draws no card for it and raises no error, whatever the user's
\* other documents are.
C5_IncompleteDocumentSkipped ==
    page.shown # NoUser /\ (\E d \in 1..Len(ShownDocs) : ~Renderable(ShownDocs[d])) =>
        /\ page.exception = "none"
        /\ \A d \in 1..Len(ShownDocs) :
               ~Renderable(ShownDocs[d]) => CardsOf(d) = {}

\* C6: a "View PDF" click on a document, in a run that is not halted,
\* turns that document's flag in view_pdf to true when it was absent or
\* false and to false when it was true, and leaves every other document's
\* flag, the found user and the searched email as they were; and every card
\* drawn with its controls shows the inline viewer exactly when its
\* document's flag is true.
C6_ClickFlips ==
    (event'.button = "view" /\ page'.halted = "no") =>
        /\ view_pdf'[event'.doc] =
               (IF view_pdf[event'.doc] = "true" THEN "false" ELSE "true")
        /\ \A d \in DocIds \ { event'.doc } : view_pdf'[d] = view_pdf[d]
        /\ found_user' = found_user
        /\ searched_email' = searched_email

C6_ViewerFollowsFlag ==
    \A k \in 1..Len(page.cards) :
        page.cards[k].controls =>
            (page.cards[k].viewer <=> view_pdf[page.cards[k].doc_id] = "true")

C6_TogglePreview == [][C6_ClickFlips]_vars /\ []C6_ViewerFollowsFlag

\* C6 witness: a second click has hidden a document again while another
\* document's preview stays open
C6_Witness ==
    /\ event.button = "view" /\ page.halted = "no"
    /\ view_pdf[event.doc] = "false"
    /\ \E k \in 1..Len(page.cards) :
           page.cards[k].doc_id # event.doc /\ page.cards[k].viewer
    /\ \E k \in 1..Len(page.cards) :
           page.cards[k].doc_id = event.doc /\ ~page.cards[k].viewer

CredentialsFail(env) == ~apps /\ ~env.secrets /\ ~env.keyfile

\* C7: a run in which no app exists and both credential sources fail, or
\* in which the test read of the database fails, halts: it fetches no
\* users, shows no message of the search, no user and no card, and a search
\* submitted in it leaves found_user and searched_email untouched.
C7_Halts ==
    \A env \in Envs :
        CredentialsFail(env) \/ ~env.db =>
            /\ \A text \in SearchTexts :
                   SearchWith(text, env) =>
                       /\ page'.halted # "no"
                       /\ ~page'.lookup /\ ~page'.success /\ ~page'.not_found
                       /\ page'.suggestions = << >>
                       /\ page'.shown = NoUser /\ page'.cards = << >>
                       /\ found_user' = found_user
                       /\ searched_email' = searched_email
            /\ RerunWith(env) \/ RefreshWith(env) \/ ClearWith(env) =>
                   /\ page'.halted # "no"
                   /\ ~page'.lookup
                   /\ page'.shown = NoUser /\ page'.cards = << >>

C7_FailureHaltsTheRun == [][C7_Halts]_vars

\* C7 witness: a halted run shows nothing although a user is stored
C7_Witness ==
    /\ page.halted = "db"
    /\ found_user # NoUser
    /\ page.shown = NoUser /\ ~page.lookup

\* C8: for file_data that is base64 text decoding to L bytes the size shown
\* is the number of tenths nearest to L/1024 followed by " KB" ("2.0 KB"
\* for 2048 bytes); for absent or undecodable file_data it is "Unknown".
C8_SizeShown ==
    event.button = "size" =>
        LET n == size_in.n
            valid == /\ size_in.present
                     /\ n % 4 # 1
                     /\ (n % 4 = 0 \/ size_in.pad >= 4 - (n % 4))
            L == (6 * n) \div 8
        IN  IF valid
            THEN /\ size_out.known
                 /\ 2 * (1024 * size_out.tenths - 10 * L) <= 1024
                 /\ 2 * (10 * L - 1024 * size_out.tenths) <= 1024
                 /\ (L = 2048 => size_out.tenths = 20)
            ELSE size_out = Unknown

\* C8 witness: a text of 2731 characters and one '=' decodes to 2048 bytes
\* and is shown as 2.0 KB
C8_Witness ==
    /\ event.button = "size"
    /\ size_in = File(2731, 1)
    /\ size_out = KB(20)

\* C9: whenever a user record is displayed, its email equals the session's
\* searched_email.
C9_ShownUserIsSearchedUser ==
    page.shown # NoUser => page.shown.data.email = searched_email

\* C10: in the run of a search that finds a user other than the one stored
\* before, no document of the newly displayed user shows its preview.
C10_Hidden ==
    (page'.halted = "no" /\ page'.lookup /\ page'.success
        /\ found_user'.id # found_user.id) =>
        \A k \in 1..Len(page'.cards) : ~page'.cards[k].viewer

====
